---- MODULE Spec2Model ----
(***************************************************************************)
(* Model of the SynCED-EnDe orchestration scripts:                         *)
(*   scripts/inject.py          error injection, batches of BATCH_SIZE     *)
(*   scripts/reinject.py        re-run of the rows whose injection is empty*)
(*   scripts/judge_quantify.py  back-translation + five-score judgement    *)
(* All three share the same retry wrapper _with_retries.                   *)
(*                                                                         *)
(* Texts are sequences of one-character strings, so that str.strip(),      *)
(* str.split() and int() are computed, not assumed.  Times are in tenths   *)
(* of a second (BACKOFF_BASE_S = 1.0 s = 10, JITTER_S = 0.6 s = 6), and     *)
(* random.uniform(0, JITTER_S) is drawn on that grid.                      *)
(***************************************************************************)
EXTENDS Integers, Sequences, FiniteSets, TLC

VARIABLES
    stage,          \* which script runs: "inject", "reinject" or "judge"
    pc,             \* control point of the running script
    df,             \* the dataset read by pd.read_csv
    start,          \* inject/reinject: loop variable start; judge: rows consumed
    call,           \* the function that called _with_retries
    idem_key,       \* _with_retries: idem_key
    attempt,        \* _with_retries: attempt
    exc,            \* the exception raised by the last create / in flight
    outputs,        \* main: outputs of the current batch
    injected_rows,  \* inject.py injected_rows, reinject.py reinjected
    bt,             \* judge_quantify.py main: bt
    rows,           \* judge_quantify.py main: rows
    out_df,         \* the dataset handed to to_csv (meaningful when pc = "done")
    sleeps,         \* time.sleep calls made by the current _with_retries
    lastWait,       \* argument of the last time.sleep of the current _with_retries
    created,        \* client.responses.create calls made by the current _with_retries
    executes,       \* _with_retries calls started so far
    sent,           \* <<execute number, Idempotency-Key>> of every request sent
    nextUuid,       \* source of uuid.uuid4 values
    dispatched,     \* the messages of every _with_retries call, in call order
    pass,           \* reinject.py: 1 in the first run, 2 in a run over its own output
    parse_text,     \* the text handed to _parse_five_ints by the call made last
    parse_result    \* what that call of _parse_five_ints returned or raised

vars == <<stage, pc, df, start, call, idem_key, attempt, exc, outputs,
          injected_rows, bt, rows, out_df, sleeps, lastWait, created,
          executes, sent, nextUuid, dispatched, pass, parse_text,
          parse_result>>

----------------------------------------------------------------------------
(* Bounds of the model *)

\* largest dataset read by inject.py
MaxRows == 6
\* largest freely chosen dataset read by reinject.py
MaxReinjectRows == 2
\* largest dataset read by judge_quantify.py
MaxJudgeRows == 2
\* most tokens in a text handed to _parse_five_ints with a wrong token count
MaxTokens == 6

----------------------------------------------------------------------------
(* Program constants *)

MAX_RETRIES == 6
\* 1.0 s, in tenths of a second
BACKOFF_BASE_S == 10
\* 0.6 s, in tenths of a second
JITTER_S == 6
BATCH_SIZE == 5

RetryableErrors ==
    {"RateLimitError", "APIConnectionError", "APITimeoutError",
     "InternalServerError", "Exception"}

ErrorClasses == {"BadRequestError"} \cup RetryableErrors

----------------------------------------------------------------------------
(* Texts *)

Min(a, b) == IF a < b THEN a ELSE b

Digit(i) == <<"0", "1", "2", "3", "4", "5", "6", "7", "8", "9">>[i + 1]

\* the float NaN pandas stores for an empty cell
NaN == <<"NaN">>

isna(t) == t = NaN

\* the whitespace characters of the model's texts
Whitespace == {" ", "\t", "\n"}

IsSpace(c) == c \in Whitespace

RECURSIVE lstrip(_)
lstrip(s) ==
    IF s # <<>> /\ IsSpace(Head(s)) THEN lstrip(Tail(s)) ELSE s

RECURSIVE rstrip(_)
rstrip(s) ==
    IF s # <<>> /\ IsSpace(s[Len(s)]) THEN rstrip(SubSeq(s, 1, Len(s) - 1)) ELSE s

\* str.strip()
strip(s) == rstrip(lstrip(s))

\* Series.str.strip(): NaN stays NaN
str_strip(t) == IF isna(t) THEN NaN ELSE strip(t)

\* [""] * n
EmptyStrings(n) == [i \in 1..n |-> <<>>]

----------------------------------------------------------------------------
(* Rows and replies *)

ErrTypes == <<"NAM", "NUM", "SEN", "SAF", "TOX">>

\* row i of err_for_injection.tsv
Row(i) ==
    [rid |-> i,
     src_en |-> <<"s", Digit(i)>>,
     mt_de |-> <<"m", Digit(i)>>,
     target_err |-> ErrTypes[((i - 1) % 5) + 1]]

\* the tuple appended to injected_rows
Injected(row, inj) ==
    [rid |-> row.rid, src_en |-> row.src_en, mt_de |-> row.mt_de,
     target_err |-> row.target_err, mt_de_injected |-> inj]

\* a content part of an output item; a refusal part has no text attribute
TextPart(t) == [hasText |-> TRUE, text |-> t]
RefusalPart == [hasText |-> FALSE, text |-> <<>>]

MessageItem(parts) == [type |-> "message", role |-> "assistant", content |-> parts]
ReasoningItem == [type |-> "reasoning", role |-> "none", content |-> <<>>]

\* the text the service emits as its unit p: padded, so that strip() has work
UnitText(p) == <<" ", "t", Digit(p), " ">>

OddPartKinds == {"refusal", "empty", "blank"}

PartOf(kind, p) ==
    CASE kind = "refusal" -> RefusalPart
      [] kind = "empty"   -> TextPart(<<>>)
      [] kind = "blank"   -> TextPart(<<" ">>)
      [] kind = "text"    -> TextPart(UnitText(p))

OddItemKinds == OddPartKinds \cup {"reasoning"}

ItemOf(kind, p) ==
    IF kind = "reasoning" THEN ReasoningItem ELSE MessageItem(<<PartOf(kind, p)>>)

\* the kinds of m units: all of them texts, or all but the unit at position q
AllText(m) == [p \in 1..m |-> "text"]
OneOdd(m, q, kind) == [p \in 1..m |-> IF p = q THEN kind ELSE "text"]

\* a reply of one output item per unit
ItemsReply(kinds) == [output |-> [p \in 1..Len(kinds) |-> ItemOf(kinds[p], p)]]

\* a reply of one message whose content holds one part per unit
PartsReply(kinds) ==
    [output |-> <<MessageItem([p \in 1..Len(kinds) |-> PartOf(kinds[p], p)])>>]

\* replies to a request of k rows: 0 to k + 1 units, as separate items or as
\* the parts of one message; at most one unit is not a plain text
BatchReplies(k) ==
    UNION {
        {ItemsReply(AllText(m)), PartsReply(AllText(m))}
        \cup {ItemsReply(OneOdd(m, q, kind)) : q \in 1..m, kind \in OddItemKinds}
        \cup {PartsReply(OneOdd(m, q, kind)) : q \in 1..m, kind \in OddPartKinds}
        : m \in 0..(k + 1)}

RECURSIVE PartTexts(_)
PartTexts(content) ==
    IF content = <<>> THEN <<>>
    ELSE LET c == Head(content) IN
         (IF c.hasText /\ c.text # <<>> THEN <<strip(c.text)>> ELSE <<>>)
            \o PartTexts(Tail(content))

RECURSIVE ItemTexts(_)
ItemTexts(output) ==
    IF output = <<>> THEN <<>>
    ELSE LET item == Head(output) IN
         (IF item.type = "message" /\ item.role = "assistant"
            THEN PartTexts(item.content) ELSE <<>>)
            \o ItemTexts(Tail(output))

\* inject.py / reinject.py _extract_output_text
ExtractTexts(resp) == ItemTexts(resp.output)

----------------------------------------------------------------------------
(* _with_retries *)

RECURSIVE Pow2(_)
Pow2(n) == IF n = 0 THEN 1 ELSE 2 * Pow2(n - 1)

\* mutant of BackoffBase: 2 * attempt for 2 ** attempt
BackoffLinear(n) == BACKOFF_BASE_S * (2 * n)

\* BACKOFF_BASE_S * (2 ** attempt), the part of wait that is not jitter
BackoffBase(n) == BACKOFF_BASE_S * Pow2(n)

\* mutant of Wait: the backoff does not grow with the attempt
WaitNoBackoff(n, jitter) == BACKOFF_BASE_S + jitter

\* BACKOFF_BASE_S * (2 ** attempt) + random.uniform(0, JITTER_S)
Wait(n, jitter) == BackoffBase(n) + jitter

\* mutant of RequestKey: a key is drawn for every attempt
RequestKeyPerAttempt == 10 * idem_key + attempt

\* the Idempotency-Key header of the request of the current attempt
RequestKey == idem_key

\* mutant of InLoop: the loop runs one iteration more
InLoopOneMore == attempt <= MAX_RETRIES

\* for attempt in range(MAX_RETRIES): the loop has an iteration left
InLoop == attempt < MAX_RETRIES

\* entry of _with_retries: idem_key = str(uuid.uuid4()), then the for loop
EnterWithRetries(caller) ==
    /\ call' = caller
    /\ idem_key' = nextUuid
    /\ nextUuid' = nextUuid + 1
    /\ attempt' = 0
    /\ exc' = "none"
    /\ sleeps' = 0
    /\ lastWait' = 0
    /\ created' = 0
    /\ executes' = executes + 1
    /\ pc' = "create"

\* the request of the current attempt goes out
SendRequest ==
    /\ created' = created + 1
    /\ sent' = sent \cup {<<executes, RequestKey>>}

\* mutant of CreateBadRequest: the error is handled like a retryable one
CreateBadRequestRetried ==
    /\ pc = "create"
    /\ InLoop
    /\ SendRequest
    /\ exc' = "BadRequestError"
    /\ \E jitter \in 0..JITTER_S : lastWait' = Wait(attempt, jitter)
    /\ sleeps' = sleeps + 1
    /\ attempt' = attempt + 1
    /\ pc' = "create"
    /\ UNCHANGED <<dispatched, pass, parse_text, parse_result>>
    /\ UNCHANGED <<stage, df, start, call, idem_key, outputs, injected_rows,
                   bt, rows, out_df, executes, nextUuid>>

\* create raises BadRequestError; the handler logs it and re-raises
CreateBadRequest ==
    /\ pc = "create"
    /\ InLoop
    /\ SendRequest
    /\ exc' = "BadRequestError"
    /\ pc' = "raised"
    /\ UNCHANGED <<dispatched, pass, parse_text, parse_result>>
    /\ UNCHANGED <<stage, df, start, call, idem_key, attempt, outputs,
                   injected_rows, bt, rows, out_df, sleeps, lastWait,
                   executes, nextUuid>>

\* mutant of CreateRetryable: no sleep after the failure of the last attempt
CreateRetryableNoLastSleep ==
    /\ pc = "create"
    /\ InLoop
    /\ SendRequest
    /\ \E e \in RetryableErrors : exc' = e
    /\ IF attempt < MAX_RETRIES - 1
       THEN /\ \E jitter \in 0..JITTER_S : lastWait' = Wait(attempt, jitter)
            /\ sleeps' = sleeps + 1
       ELSE UNCHANGED <<lastWait, sleeps>>
    /\ attempt' = attempt + 1
    /\ pc' = "create"
    /\ UNCHANGED <<dispatched, pass, parse_text, parse_result>>
    /\ UNCHANGED <<stage, df, start, call, idem_key, outputs, injected_rows,
                   bt, rows, out_df, executes, nextUuid>>

\* create raises any other error; the handler sleeps wait seconds and the
\* loop goes to its next iteration
CreateRetryable ==
    /\ pc = "create"
    /\ InLoop
    /\ SendRequest
    /\ \E e \in RetryableErrors : exc' = e
    /\ \E jitter \in 0..JITTER_S : lastWait' = Wait(attempt, jitter)
    /\ sleeps' = sleeps + 1
    /\ attempt' = attempt + 1
    /\ pc' = "create"
    /\ UNCHANGED <<dispatched, pass, parse_text, parse_result>>
    /\ UNCHANGED <<stage, df, start, call, idem_key, outputs, injected_rows,
                   bt, rows, out_df, executes, nextUuid>>

\* the for loop is exhausted: raise RuntimeError("Max retries exceeded")
RaiseMaxRetries ==
    /\ pc = "create"
    /\ ~InLoop
    /\ exc' = "RuntimeError"
    /\ pc' = "raised"
    /\ UNCHANGED <<dispatched, pass, parse_text, parse_result>>
    /\ UNCHANGED <<stage, df, start, call, idem_key, attempt, outputs,
                   injected_rows, bt, rows, out_df, sleeps, lastWait, created,
                   executes, sent, nextUuid>>

----------------------------------------------------------------------------
(* judge_quantify.py: reply text and the five-integer parser *)

\* a reply as judge_quantify.py reads it: the output_text attribute may be
\* missing, and output is the list of output items
JudgeReply(has, text, output) ==
    [has_output_text |-> has, output_text |-> text, output |-> output]

\* resp.output[0].content[0].text exists (otherwise the try block raises)
FirstTextReadable(resp) ==
    /\ Len(resp.output) >= 1
    /\ Len(resp.output[1].content) >= 1
    /\ resp.output[1].content[1].hasText

\* "\n".join(out)
RECURSIVE JoinLines(_)
JoinLines(out) ==
    IF out = <<>> THEN <<>>
    ELSE IF Len(out) = 1 THEN Head(out)
    ELSE Head(out) \o <<"\n">> \o JoinLines(Tail(out))

RECURSIVE RawPartTexts(_)
RawPartTexts(content) ==
    IF content = <<>> THEN <<>>
    ELSE LET c == Head(content) IN
         (IF c.hasText /\ c.text # <<>> THEN <<c.text>> ELSE <<>>)
            \o RawPartTexts(Tail(content))

\* the except branch: the texts of every item of type "message"
RECURSIVE MessageTexts(_)
MessageTexts(output) ==
    IF output = <<>> THEN <<>>
    ELSE LET item == Head(output) IN
         (IF item.type = "message" THEN RawPartTexts(item.content) ELSE <<>>)
            \o MessageTexts(Tail(output))

\* judge_quantify.py _extract_output_text
ExtractText(resp) ==
    IF resp.has_output_text /\ resp.output_text # <<>>
    THEN strip(resp.output_text)
    ELSE IF FirstTextReadable(resp)
    THEN strip(resp.output[1].content[1].text)
    ELSE strip(JoinLines(MessageTexts(resp.output)))

\* the shapes in which the service can return the text raw
ReplyShapes(raw) ==
    {JudgeReply(TRUE, raw, <<MessageItem(<<TextPart(raw)>>)>>),
     JudgeReply(FALSE, <<>>, <<MessageItem(<<TextPart(raw)>>)>>),
     JudgeReply(TRUE, <<>>, <<ReasoningItem, MessageItem(<<TextPart(raw)>>)>>),
     JudgeReply(FALSE, <<>>, <<MessageItem(<<RefusalPart, TextPart(raw)>>)>>),
     JudgeReply(FALSE, <<>>, <<>>)}

Contains(s, c) == \E i \in 1..Len(s) : s[i] = c

\* index of the first element of s that is in chars, Len(s) + 1 if none
FirstIndex(s, chars) ==
    IF \E i \in 1..Len(s) : s[i] \in chars
    THEN CHOOSE i \in 1..Len(s) :
            s[i] \in chars /\ \A j \in 1..(i - 1) : s[j] \notin chars
    ELSE Len(s) + 1

\* str.split(sep)
RECURSIVE SplitOn(_, _)
SplitOn(s, sep) ==
    IF ~Contains(s, sep) THEN <<s>>
    ELSE LET i == FirstIndex(s, {sep}) IN
         <<SubSeq(s, 1, i - 1)>> \o SplitOn(SubSeq(s, i + 1, Len(s)), sep)

\* str.split(): runs of whitespace separate, no empty tokens
RECURSIVE SplitWhitespace(_)
SplitWhitespace(s) ==
    LET t == lstrip(s) IN
    IF t = <<>> THEN <<>>
    ELSE LET i == FirstIndex(t, Whitespace) IN
         <<SubSeq(t, 1, i - 1)>> \o SplitWhitespace(SubSeq(t, i, Len(t)))

IsDigit(c) == c \in {"0", "1", "2", "3", "4", "5", "6", "7", "8", "9"}

DigitValue(c) == CHOOSE d \in 0..9 : Digit(d) = c

\* the literal without its sign
Unsigned(t) == IF t # <<>> /\ Head(t) \in {"+", "-"} THEN Tail(t) ELSE t

\* int(p) accepts surrounding whitespace, one sign, and digits that single
\* underscores may separate
IntAccepts(p) ==
    LET b == Unsigned(strip(p)) IN
    /\ b # <<>>
    /\ IsDigit(b[1])
    /\ IsDigit(b[Len(b)])
    /\ \A i \in 1..Len(b) : IsDigit(b[i]) \/ b[i] = "_"
    /\ \A i \in 1..(Len(b) - 1) : ~(b[i] = "_" /\ b[i + 1] = "_")

RECURSIVE Magnitude(_, _)
Magnitude(b, acc) ==
    IF b = <<>> THEN acc
    ELSE IF Head(b) = "_" THEN Magnitude(Tail(b), acc)
    ELSE Magnitude(Tail(b), 10 * acc + DigitValue(Head(b)))

\* int(p), for a p that int accepts
IntValue(p) ==
    LET t == strip(p) IN
    IF Head(t) = "-" THEN 0 - Magnitude(Unsigned(t), 0) ELSE Magnitude(Unsigned(t), 0)

\* mutant of SplitParts: a comma is looked for before a tab
SplitPartsCommaFirst(raw) ==
    IF Contains(raw, ",")
    THEN LET ps == SplitOn(raw, ",") IN [i \in 1..Len(ps) |-> strip(ps[i])]
    ELSE IF Contains(raw, "\t") THEN SplitOn(raw, "\t")
    ELSE SplitWhitespace(raw)

\* mutant of SplitParts: commas are not a separator
SplitPartsNoComma(raw) ==
    IF Contains(raw, "\t") THEN SplitOn(raw, "\t")
    ELSE SplitWhitespace(raw)

\* the branch of _parse_five_ints that splits raw
SplitParts(raw) ==
    IF Contains(raw, "\t") THEN SplitOn(raw, "\t")
    ELSE IF Contains(raw, ",")
    THEN LET ps == SplitOn(raw, ",") IN [i \in 1..Len(ps) |-> strip(ps[i])]
    ELSE SplitWhitespace(raw)

ParseError == [raised |-> TRUE, vals |-> <<>>]

\* mutant of ParseFiveInts: the values are returned without the range test
ParseFiveIntsNoRange(text) ==
    LET raw == strip(text)
        parts == SplitParts(raw)
    IN  IF Len(parts) # 5 THEN ParseError
        ELSE IF \E i \in 1..5 : ~IntAccepts(parts[i]) THEN ParseError
        ELSE [raised |-> FALSE, vals |-> [i \in 1..5 |-> IntValue(parts[i])]]

\* mutant of ParseFiveInts: a value outside 1..5 is clamped, not refused
ParseFiveIntsClamps(text) ==
    LET raw == strip(text)
        parts == SplitParts(raw)
    IN  IF Len(parts) # 5 THEN ParseError
        ELSE IF \E i \in 1..5 : ~IntAccepts(parts[i]) THEN ParseError
        ELSE LET vals == [i \in 1..5 |-> IntValue(parts[i])] IN
             [raised |-> FALSE,
              vals |-> [i \in 1..5 |-> IF vals[i] < 1 THEN 1
                                       ELSE IF vals[i] > 5 THEN 5 ELSE vals[i]]]

\* _parse_five_ints: the five values in column order, or ValueError
ParseFiveInts(text) ==
    LET raw == strip(text)
        parts == SplitParts(raw)
    IN  IF Len(parts) # 5 THEN ParseError
        ELSE IF \E i \in 1..5 : ~IntAccepts(parts[i]) THEN ParseError
        ELSE LET vals == [i \in 1..5 |-> IntValue(parts[i])] IN
             IF \E i \in 1..5 : vals[i] < 1 \/ vals[i] > 5 THEN ParseError
             ELSE [raised |-> FALSE, vals |-> vals]

\* mutant of JudgeScores: a text that does not parse is scored 1 throughout
JudgeScoresDefault(text) ==
    LET r == ParseFiveInts(text) IN IF r.raised THEN <<1, 1, 1, 1, 1>> ELSE r.vals

\* judge_case after the call: the parsed dict, or {} when the parse raises
JudgeScores(text) ==
    LET r == ParseFiveInts(text) IN IF r.raised THEN <<>> ELSE r.vals

\* a score column holds None or an integer
None == <<>>
Some(v) == <<v>>

\* the five score columns of a record: None for all when scores is empty
ScoreColumns(scores) ==
    IF scores = <<>> THEN [i \in 1..5 |-> None]
    ELSE [i \in 1..5 |-> Some(scores[i])]

\* the integers vals written with the separator sep between them
RECURSIVE Render(_, _)
Render(vals, sep) ==
    IF vals = <<>> THEN <<>>
    ELSE IF Len(vals) = 1 THEN <<Digit(Head(vals))>>
    ELSE <<Digit(Head(vals)), sep>> \o Render(Tail(vals), sep)

\* texts the service returns to the back-translation request
BtTexts == {<<>>, <<" ", "e", " ">>}

\* texts the service returns to the judgement request
JudgeTexts ==
    {Render(<<2, 3, 2, 3, 4>>, "\t"),
     Render(<<2, 3, 2, 3, 4>>, ","),
     Render(<<2, 3, 2, 3, 4>>, " "),
     <<" ">> \o Render(<<1, 5, 1, 5, 1>>, "\t") \o <<"\n">>,
     Render(<<1, 2, 3, 4>>, "\t"),
     Render(<<6, 1, 1, 1, 1>>, "\t"),
     Render(<<2, 3, 2, 3, 0>>, ","),
     <<"2", "\t", "x", "\t", "2", "\t", "3", "\t", "4">>,
     <<>>}

----------------------------------------------------------------------------
(* Datasets *)

\* row i of injected_err.tsv, with the cell mt_de_injected as read_csv gives it
CellOf(kind, i) ==
    CASE kind = "nan"   -> NaN
      [] kind = "blank" -> <<" ">>
      [] kind = "done"  -> <<" ", "d", Digit(i)>>

CellKinds == {"nan", "blank", "done"}

\* a dataset of BATCH_SIZE + 2 rows of which BATCH_SIZE + 1 need reinjection
TwoBatchDataset ==
    [i \in 1..(BATCH_SIZE + 2) |->
        Injected(Row(i), CellOf(IF i = 2 THEN "done"
                                ELSE IF i % 2 = 0 THEN "blank" ELSE "nan", i))]

\* row i of ced_final_injected.tsv
JudgeRow(i) ==
    [src_en |-> <<"s", Digit(i)>>,
     mt_de |-> <<"m", Digit(i)>>,
     label |-> IF i % 2 = 1 THEN "ERR" ELSE "NOT"]

\* the record main appends to rows
Judged(row, bt_en, scores) ==
    [src_en |-> row.src_en, mt_de |-> row.mt_de, bt_en |-> bt_en,
     label |-> row.label, scores |-> ScoreColumns(scores)]

\* _parse_five_ints has not been called
NotParsed == [raised |-> FALSE, vals |-> <<>>]

InitCommon ==
    /\ start = 0
    /\ call = "none"
    /\ idem_key = 0
    /\ attempt = 0
    /\ exc = "none"
    /\ outputs = <<>>
    /\ injected_rows = <<>>
    /\ bt = <<>>
    /\ rows = <<>>
    /\ out_df = <<>>
    /\ sleeps = 0
    /\ lastWait = 0
    /\ created = 0
    /\ executes = 0
    /\ sent = {}
    /\ nextUuid = 1
    /\ dispatched = <<>>
    /\ pass = 1

InitInject ==
    /\ stage = "inject"
    /\ pc = "loop"
    /\ \E n \in 0..MaxRows : df = [i \in 1..n |-> Row(i)]
    /\ InitCommon
    /\ parse_text = <<>>
    /\ parse_result = NotParsed

InitReinject ==
    /\ stage = "reinject"
    /\ pc = "select"
    /\ \/ \E n \in 0..MaxReinjectRows : \E kinds \in [1..n -> CellKinds] :
            df = [i \in 1..n |-> Injected(Row(i), CellOf(kinds[i], i))]
       \/ df = TwoBatchDataset
    /\ InitCommon
    /\ parse_text = <<>>
    /\ parse_result = NotParsed

InitJudge ==
    /\ stage = "judge"
    /\ pc = "loop"
    /\ \E n \in 0..MaxJudgeRows : df = [i \in 1..n |-> JudgeRow(i)]
    /\ InitCommon
    /\ parse_text = <<>>
    /\ parse_result = NotParsed

Init == InitInject \/ InitReinject \/ InitJudge

----------------------------------------------------------------------------
(* inject.py and reinject.py *)

\* reinject.py: the row needs reinjection
NeedsFix(row) ==
    isna(row.mt_de_injected) \/ str_strip(row.mt_de_injected) = <<>>

\* reinject.py: the row is kept as it is
IsComplete(row) ==
    ~isna(row.mt_de_injected) /\ str_strip(row.mt_de_injected) # <<>>

\* mutant of to_fix: every row is selected for reinjection
to_fixEveryRow == df

\* reinject.py to_fix
to_fix == SelectSeq(df, NeedsFix)

\* mutant of Kept: the kept rows are written with their text trimmed
KeptStripped ==
    LET k == SelectSeq(df, IsComplete) IN
    [i \in 1..Len(k) |-> Injected(k[i], strip(k[i].mt_de_injected))]

\* reinject.py: the first operand of pd.concat
Kept == SelectSeq(df, IsComplete)

\* the .str accessor exists on an object column only: a column whose cells
\* are all NaN is read as float64
HasStrAccessor(d) ==
    Len(d) = 0 \/ \E i \in 1..Len(d) : ~isna(d[i].mt_de_injected)

\* the rows main iterates over
Work == IF stage = "reinject" THEN to_fix ELSE df

\* mutant of Chunk: the slice takes one row more than BATCH_SIZE
ChunkOneMore == SubSeq(Work, start + 1, Min(start + BATCH_SIZE + 1, Len(Work)))

\* df.iloc[start:start + BATCH_SIZE]
Chunk == SubSeq(Work, start + 1, Min(start + BATCH_SIZE, Len(Work)))

\* zip(chunk.iterrows(), outputs)
Zip(chunk, outs) ==
    [i \in 1..Min(Len(chunk), Len(outs)) |-> Injected(chunk[i], outs[i])]

\* mutant of FailedOutputs: the fallback list is one short
FailedOutputsShort(chunk) == EmptyStrings(Len(chunk) - 1)

\* main's fallback for a batch whose call raised
FailedOutputs(chunk) == EmptyStrings(Len(chunk))

\* reinject.py main: to_fix is computed
SelectToFix ==
    /\ pc = "select"
    /\ HasStrAccessor(df)
    /\ pc' = "loop"
    /\ UNCHANGED <<dispatched, pass, parse_text, parse_result>>
    /\ UNCHANGED <<stage, df, start, call, idem_key, attempt, exc, outputs,
                   injected_rows, bt, rows, out_df, sleeps, lastWait, created,
                   executes, sent, nextUuid>>

\* reinject.py main: .str on a float64 column raises AttributeError, which
\* nothing catches
SelectRaises ==
    /\ pc = "select"
    /\ ~HasStrAccessor(df)
    /\ exc' = "AttributeError"
    /\ pc' = "crashed"
    /\ UNCHANGED <<dispatched, pass, parse_text, parse_result>>
    /\ UNCHANGED <<stage, df, start, call, idem_key, attempt, outputs,
                   injected_rows, bt, rows, out_df, sleeps, lastWait, created,
                   executes, sent, nextUuid>>

\* inject_batch: the system message, then one user message per row of the
\* batch, built from the row's source, translation and error type
BuildMessages(chunk) ==
    <<[role |-> "system", content |-> <<"SYSTEM_PROMPT">>]>> \o
    [i \in 1..Len(chunk) |->
        [role |-> "user",
         content |-> <<chunk[i].src_en, chunk[i].mt_de, chunk[i].target_err>>]]

\* the for loop takes the next chunk; inject_batch builds the messages and
\* calls _with_retries
StartBatch ==
    /\ pc = "loop"
    /\ stage \in {"inject", "reinject"}
    /\ start < Len(Work)
    /\ EnterWithRetries(IF stage = "inject" THEN "inject_batch" ELSE "reinject_batch")
    /\ dispatched' = Append(dispatched, BuildMessages(Chunk))
    /\ UNCHANGED <<pass, parse_text, parse_result>>
    /\ UNCHANGED <<stage, df, start, outputs, injected_rows, bt, rows, out_df,
                   sent>>

\* create returns; inject_batch returns _extract_output_text(resp)
BatchReturns ==
    /\ pc = "create"
    /\ call \in {"inject_batch", "reinject_batch"}
    /\ InLoop
    /\ SendRequest
    /\ \E resp \in BatchReplies(Len(Chunk)) : outputs' = ExtractTexts(resp)
    /\ pc' = "zip"
    /\ UNCHANGED <<dispatched, pass, parse_text, parse_result>>
    /\ UNCHANGED <<stage, df, start, call, idem_key, attempt, exc,
                   injected_rows, bt, rows, out_df, sleeps, lastWait,
                   executes, nextUuid>>

\* mutant of BatchFailed: the exception of the batch ends the run
BatchFailedAborts ==
    /\ pc = "raised"
    /\ call \in {"inject_batch", "reinject_batch"}
    /\ outputs' = <<>>
    /\ pc' = "crashed"
    /\ UNCHANGED <<dispatched, pass, parse_text, parse_result>>
    /\ UNCHANGED <<stage, df, start, call, idem_key, attempt, exc,
                   injected_rows, bt, rows, out_df, sleeps, lastWait, created,
                   executes, sent, nextUuid>>

\* main: except Exception: outputs = [""] * len(chunk)
BatchFailed ==
    /\ pc = "raised"
    /\ call \in {"inject_batch", "reinject_batch"}
    /\ outputs' = FailedOutputs(Chunk)
    /\ pc' = "zip"
    /\ UNCHANGED <<dispatched, pass, parse_text, parse_result>>
    /\ UNCHANGED <<stage, df, start, call, idem_key, attempt, exc,
                   injected_rows, bt, rows, out_df, sleeps, lastWait, created,
                   executes, sent, nextUuid>>

\* main: the zip loop appends one tuple per pair, then the next start
ZipAppend ==
    /\ pc = "zip"
    /\ injected_rows' = injected_rows \o Zip(Chunk, outputs)
    /\ start' = start + BATCH_SIZE
    /\ pc' = "loop"
    /\ UNCHANGED <<dispatched, pass, parse_text, parse_result>>
    /\ UNCHANGED <<stage, df, call, idem_key, attempt, exc, outputs, bt, rows,
                   out_df, sleeps, lastWait, created, executes, sent, nextUuid>>

\* inject.py main: out_df = DataFrame(injected_rows); out_df.to_csv
WriteInjected ==
    /\ pc = "loop"
    /\ stage = "inject"
    /\ start >= Len(Work)
    /\ out_df' = injected_rows
    /\ pc' = "done"
    /\ UNCHANGED <<dispatched, pass, parse_text, parse_result>>
    /\ UNCHANGED <<stage, df, start, call, idem_key, attempt, exc, outputs,
                   injected_rows, bt, rows, sleeps, lastWait, created,
                   executes, sent, nextUuid>>

\* reinject.py main: fixed_df = pd.concat([kept rows, reinjected_df]); to_csv
WriteReinjected ==
    /\ pc = "loop"
    /\ stage = "reinject"
    /\ start >= Len(Work)
    /\ out_df' = Kept \o injected_rows
    /\ pc' = "done"
    /\ UNCHANGED <<dispatched, pass, parse_text, parse_result>>
    /\ UNCHANGED <<stage, df, start, call, idem_key, attempt, exc, outputs,
                   injected_rows, bt, rows, sleeps, lastWait, created,
                   executes, sent, nextUuid>>

\* to_csv then read_csv: an empty cell of the file is read as NaN
ReadCsv(d) ==
    [i \in 1..Len(d) |->
        IF d[i].mt_de_injected = <<>> THEN Injected(d[i], NaN) ELSE d[i]]

\* reinject.py is run again on the dataset it wrote.  The second run is
\* followed for the datasets in which the first run left no row to fix; a
\* dataset with rows to fix is an input of the kind Init draws.
RunAgain ==
    /\ stage = "reinject"
    /\ pc = "done"
    /\ pass = 1
    /\ \A i \in 1..Len(out_df) : IsComplete(ReadCsv(out_df)[i])
    /\ df' = ReadCsv(out_df)
    /\ pass' = 2
    /\ pc' = "select"
    /\ start' = 0
    /\ call' = "none"
    /\ idem_key' = 0
    /\ attempt' = 0
    /\ exc' = "none"
    /\ outputs' = <<>>
    /\ injected_rows' = <<>>
    /\ sleeps' = 0
    /\ lastWait' = 0
    /\ created' = 0
    /\ executes' = 0
    /\ sent' = {}
    /\ nextUuid' = 1
    /\ dispatched' = <<>>
    /\ UNCHANGED <<stage, bt, rows, out_df, parse_text, parse_result>>

----------------------------------------------------------------------------
(* judge_quantify.py main *)

\* the row of the current iteration
CurrentRow == df[start + 1]

\* backtranslate: one user message, the fixed prompt followed by mt_de
BacktranslateMessages(mt_de) ==
    <<[role |-> "user", content |-> <<<<"BT_PROMPT">>, mt_de>>]>>

\* mutant of JudgeMessages: the prompt is built without the back-translation
JudgeMessagesNoBt(src_en, mt_de, bt_en) ==
    <<[role |-> "user", content |-> <<src_en, mt_de, <<>>, <<"RUBRIC">>>>]>>

\* judge_case: one user message, made of src_en, mt_de, bt_en and the rubric
JudgeMessages(src_en, mt_de, bt_en) ==
    <<[role |-> "user", content |-> <<src_en, mt_de, bt_en, <<"RUBRIC">>>>]>>

\* the for loop takes the next row; backtranslate calls _with_retries
StartRow ==
    /\ pc = "loop"
    /\ stage = "judge"
    /\ start < Len(df)
    /\ EnterWithRetries("backtranslate")
    /\ bt' = <<>>
    /\ dispatched' = Append(dispatched, BacktranslateMessages(CurrentRow.mt_de))
    /\ parse_text' = <<>>
    /\ parse_result' = NotParsed
    /\ pass' = pass
    /\ UNCHANGED <<stage, df, start, outputs, injected_rows, rows, out_df,
                   sent>>

\* create returns; backtranslate returns _extract_output_text(resp) into bt
BacktranslateReturns ==
    /\ pc = "create"
    /\ call = "backtranslate"
    /\ InLoop
    /\ SendRequest
    /\ \E raw \in BtTexts : \E resp \in ReplyShapes(raw) : bt' = ExtractText(resp)
    /\ pc' = "judge"
    /\ UNCHANGED <<dispatched, pass, parse_text, parse_result>>
    /\ UNCHANGED <<stage, df, start, call, idem_key, attempt, exc, outputs,
                   injected_rows, rows, out_df, sleeps, lastWait, executes,
                   nextUuid>>

\* judge_case builds its prompt from src, mt and bt and calls _with_retries
StartJudge ==
    /\ pc = "judge"
    /\ EnterWithRetries("judge_case")
    /\ dispatched' = Append(dispatched,
                            JudgeMessages(CurrentRow.src_en, CurrentRow.mt_de, bt))
    /\ UNCHANGED <<pass, parse_text, parse_result>>
    /\ UNCHANGED <<stage, df, start, outputs, injected_rows, bt, rows, out_df,
                   sent>>

\* create returns; judge_case parses the text; main appends the record
JudgeReturns ==
    /\ pc = "create"
    /\ call = "judge_case"
    /\ InLoop
    /\ SendRequest
    /\ \E raw \in JudgeTexts : \E resp \in ReplyShapes(raw) :
          LET text == ExtractText(resp) IN
          /\ parse_text' = text
          /\ parse_result' = ParseFiveInts(text)
          /\ rows' = Append(rows, Judged(CurrentRow, bt, JudgeScores(text)))
    /\ start' = start + 1
    /\ pc' = "loop"
    /\ UNCHANGED <<dispatched, pass>>
    /\ UNCHANGED <<stage, df, call, idem_key, attempt, exc, outputs,
                   injected_rows, bt, out_df, sleeps, lastWait, executes,
                   nextUuid>>

\* mutant of RowFailed: the record keeps the back-translation already made
RowFailedKeepsBt ==
    /\ pc = "raised"
    /\ call \in {"backtranslate", "judge_case"}
    /\ rows' = Append(rows, Judged(CurrentRow, bt, <<>>))
    /\ start' = start + 1
    /\ pc' = "loop"
    /\ UNCHANGED <<dispatched, pass, parse_text, parse_result>>
    /\ UNCHANGED <<stage, df, call, idem_key, attempt, exc, outputs,
                   injected_rows, bt, out_df, sleeps, lastWait, created,
                   executes, sent, nextUuid>>

\* mutant of RowFailed: the handler logs the failure and appends nothing
RowFailedSkips ==
    /\ pc = "raised"
    /\ call \in {"backtranslate", "judge_case"}
    /\ start' = start + 1
    /\ pc' = "loop"
    /\ UNCHANGED <<dispatched, pass, parse_text, parse_result>>
    /\ UNCHANGED <<stage, df, call, idem_key, attempt, exc, outputs,
                   injected_rows, bt, rows, out_df, sleeps, lastWait, created,
                   executes, sent, nextUuid>>

\* main: except Exception: the record with bt_en "" and no scores
RowFailed ==
    /\ pc = "raised"
    /\ call \in {"backtranslate", "judge_case"}
    /\ rows' = Append(rows, Judged(CurrentRow, <<>>, <<>>))
    /\ start' = start + 1
    /\ pc' = "loop"
    /\ UNCHANGED <<dispatched, pass, parse_text, parse_result>>
    /\ UNCHANGED <<stage, df, call, idem_key, attempt, exc, outputs,
                   injected_rows, bt, out_df, sleeps, lastWait, created,
                   executes, sent, nextUuid>>

\* main: pd.DataFrame([]) has no columns, so out_df[COL_ORDER + remaining]
\* raises KeyError, which nothing catches
WriteJudgedRaises ==
    /\ pc = "loop"
    /\ stage = "judge"
    /\ start >= Len(df)
    /\ rows = <<>>
    /\ exc' = "KeyError"
    /\ pc' = "crashed"
    /\ UNCHANGED <<dispatched, pass, parse_text, parse_result>>
    /\ UNCHANGED <<stage, df, start, call, idem_key, attempt, outputs,
                   injected_rows, bt, rows, out_df, sleeps, lastWait, created,
                   executes, sent, nextUuid>>

\* main: out_df = pd.DataFrame(rows); out_df[COL_ORDER + remaining].to_csv
WriteJudged ==
    /\ pc = "loop"
    /\ stage = "judge"
    /\ start >= Len(df)
    /\ rows # <<>>
    /\ out_df' = rows
    /\ pc' = "done"
    /\ UNCHANGED <<dispatched, pass, parse_text, parse_result>>
    /\ UNCHANGED <<stage, df, start, call, idem_key, attempt, exc, outputs,
                   injected_rows, bt, rows, sleeps, lastWait, created,
                   executes, sent, nextUuid>>

----------------------------------------------------------------------------

Next ==
    \/ CreateBadRequest
    \/ CreateRetryable
    \/ RaiseMaxRetries
    \/ SelectToFix
    \/ SelectRaises
    \/ StartBatch
    \/ BatchReturns
    \/ BatchFailed
    \/ ZipAppend
    \/ WriteInjected
    \/ WriteReinjected
    \/ RunAgain
    \/ StartRow
    \/ BacktranslateReturns
    \/ StartJudge
    \/ JudgeReturns
    \/ RowFailed
    \/ WriteJudgedRaises
    \/ WriteJudged

Spec == Init /\ [][Next]_vars

----------------------------------------------------------------------------
(* _parse_five_ints on its own *)

\* the tokens joined by the separator sep
RECURSIVE Join(_, _)
Join(tokens, sep) ==
    IF tokens = <<>> THEN <<>>
    ELSE IF Len(tokens) = 1 THEN Head(tokens)
    ELSE Head(tokens) \o sep \o Join(Tail(tokens), sep)

\* what the rubric allows between two scores, and near misses of it
Separators ==
    {<<"\t">>, <<",">>, <<" ">>, <<",", " ">>, <<" ", " ">>, <<"\t", " ">>,
     <<",", "\t">>}

\* five scores, each in 1..5
ScoreLists == {[i \in 1..5 |-> <<Digit(v[i])>>] : v \in [1..5 -> 1..5]}

\* any number of scores up to MaxTokens
CountLists == UNION {[1..n -> {<<"1">>, <<"5">>}] : n \in 0..MaxTokens}

\* tokens that are not a score: out of range, signed, padded with zeros,
\* with underscores, not an integer, empty
OddTokens ==
    {<<"0">>, <<"6">>, <<"1", "0">>, <<"-", "3">>, <<"+", "2">>, <<"0", "4">>,
     <<"0", "_", "3">>, <<"1", "_", "0">>, <<"_", "3">>, <<"3", "_">>,
     <<"0", "_", "_", "3">>, <<"3", ".", "0">>, <<"x">>, <<"+">>, <<"3", "x">>,
     <<>>}

\* five tokens of which one is odd
OddLists ==
    {[i \in 1..5 |-> IF i = p THEN o ELSE <<Digit(i)>>] :
        p \in 1..5, o \in OddTokens}

\* the tokens joined by separators that differ from gap to gap
RECURSIVE JoinMixed(_, _)
JoinMixed(tokens, gaps) ==
    IF tokens = <<>> THEN <<>>
    ELSE IF Len(tokens) = 1 THEN Head(tokens)
    ELSE Head(tokens) \o <<Head(gaps)>> \o JoinMixed(Tail(tokens), Tail(gaps))

\* five or more scores with a tab, a comma or a space in each gap
MixedInputs ==
    UNION {{JoinMixed([i \in 1..n |-> <<Digit(((i - 1) % 5) + 1)>>], gaps) :
                gaps \in [1..(n - 1) -> {"\t", ",", " "}]} : n \in 5..MaxTokens}

\* the texts _parse_five_ints is called with
ParseInputs ==
    {Join(l, sep) : l \in ScoreLists \cup CountLists \cup OddLists,
                    sep \in Separators}
    \cup MixedInputs
    \cup {<<" ">> \o Join(l, sep) \o <<"\n">> :
            l \in CountLists \cup OddLists, sep \in Separators}

InitParse ==
    /\ stage = "parse"
    /\ pc = "parse"
    /\ df = <<>>
    /\ InitCommon
    /\ parse_text \in ParseInputs
    /\ parse_result = NotParsed

\* _parse_five_ints(text) returns or raises ValueError
CallParseFiveInts ==
    /\ pc = "parse"
    /\ parse_result' = ParseFiveInts(parse_text)
    /\ pc' = "parsed"
    /\ UNCHANGED <<stage, df, start, call, idem_key, attempt, exc, outputs,
                   injected_rows, bt, rows, out_df, sleeps, lastWait, created,
                   executes, sent, nextUuid, dispatched, pass, parse_text>>

NextParse == CallParseFiveInts

SpecParse == InitParse /\ [][NextParse]_vars

----------------------------------------------------------------------------
(* Properties *)

\* the call of the current batch or row ended by raising
Raised == exc \in {"BadRequestError", "RuntimeError"}

Batching == stage \in {"inject", "reinject"}

\* the chunk of the iteration that has just ended (start is already advanced)
LastChunk == SubSeq(Work, start - BATCH_SIZE + 1, Min(start, Len(Work)))

\* the last k tuples appended to injected_rows
LastRecords(k) == SubSeq(injected_rows, Len(injected_rows) - k + 1, Len(injected_rows))

\* one tuple per row of chunk, each with an empty transformed text
Placeholders(chunk) == [i \in 1..Len(chunk) |-> Injected(chunk[i], <<>>)]

\* C1: batch fail-soft.  When the call of a batch raises (bad request or
\* retries exhausted), main's outputs is a list of empty strings as long as
\* the batch, every row of the batch is recorded with an empty transformed
\* text, and the exception does not end the run.
C1_BatchFailSoft ==
    /\ (Batching /\ Raised /\ pc = "zip") => outputs = EmptyStrings(Len(Chunk))
    /\ (Batching /\ Raised /\ pc \in {"loop", "done"}) =>
            /\ Len(injected_rows) >= Len(LastChunk)
            /\ LastRecords(Len(LastChunk)) = Placeholders(LastChunk)
    /\ (Batching /\ Raised) => pc \in {"raised", "zip", "loop", "done"}
    /\ pc = "crashed" => executes = 0

\* C1 witness: a full batch whose call exhausted its retries has been
\* recorded as BATCH_SIZE empty results, and the run goes on.
C1_Witness ==
    /\ stage = "inject"
    /\ pc = "loop"
    /\ exc = "RuntimeError"
    /\ start = BATCH_SIZE
    /\ Len(df) > BATCH_SIZE
    /\ injected_rows = Placeholders(SubSeq(df, 1, BATCH_SIZE))

\* C2: the injection stage writes exactly one record per input row, in input
\* order, whatever the service replies.
C2_OneRecordPerRow ==
    (stage = "inject" /\ pc = "done") =>
        /\ Len(out_df) = Len(df)
        /\ \A i \in 1..Len(df) : out_df[i].rid = df[i].rid

\* C3: when a successful reply carries a number of texts different from the
\* number of rows of the batch, every row of the batch is recorded with an
\* empty placeholder.
C3_MismatchGivesPlaceholders ==
    (Batching /\ pc \in {"loop", "done"} /\ start > 0 /\ ~Raised
        /\ Len(outputs) # Len(LastChunk)) =>
            /\ Len(injected_rows) >= Len(LastChunk)
            /\ LastRecords(Len(LastChunk)) = Placeholders(LastChunk)

\* C4: row-count preservation of the scoring stage.  After each iteration
\* rows holds one record per consumed input row, the i-th record carrying
\* the source, translation and label of the i-th input row, and the written
\* dataset has exactly one record per input row, in input order.
C4_RowCountPreserved ==
    stage = "judge" =>
        /\ pc \in {"loop", "done"} => Len(rows) = start
        /\ Len(rows) <= Len(df)
        /\ \A i \in 1..Len(rows) :
              /\ rows[i].src_en = df[i].src_en
              /\ rows[i].mt_de = df[i].mt_de
              /\ rows[i].label = df[i].label
        /\ pc = "done" => (out_df = rows /\ Len(out_df) = Len(df))

\* C4 witness: a finished scoring run of two rows, the first degraded by a
\* failed call (no back-translation, no scores), the second fully scored.
C4_Witness ==
    /\ stage = "judge"
    /\ pc = "done"
    /\ Len(df) = 2
    /\ Len(out_df) = 2
    /\ out_df[1].bt_en = <<>>
    /\ out_df[1].scores = ScoreColumns(<<>>)
    /\ out_df[2].scores = ScoreColumns(<<2, 3, 2, 3, 4>>)
    /\ exc = "none"

\* C5: a BadRequestError is fatal to the call.  Whatever the attempt at which
\* it occurs, the call goes to its caller at once: no request follows the
\* failed one and no sleep is made for it.
C5_BadRequestFatal ==
    exc = "BadRequestError" =>
        /\ pc \in {"raised", "zip", "loop", "done"}
        /\ created = attempt + 1
        /\ sleeps = attempt

\* C5 witness: a bad request at the fourth attempt is on its way to the
\* caller after three sleeps and four requests.
C5_Witness ==
    /\ exc = "BadRequestError"
    /\ pc = "raised"
    /\ attempt = 3
    /\ sleeps = 3
    /\ created = 4

\* C6: one call of _with_retries sends at most MAX_RETRIES requests; after
\* MAX_RETRIES retryable failures it ends with the "Max retries exceeded"
\* RuntimeError: no reply is returned and no further request is sent.
C6_AtMostMaxRetries ==
    /\ created <= MAX_RETRIES
    /\ attempt <= MAX_RETRIES
    /\ sleeps = MAX_RETRIES =>
          /\ created = MAX_RETRIES
          /\ (pc = "create" \/ exc = "RuntimeError")
    /\ exc = "RuntimeError" =>
          /\ sleeps = MAX_RETRIES
          /\ created = MAX_RETRIES
          /\ pc \in {"raised", "zip", "loop", "done"}

\* C6 witness: the RuntimeError is raised after exactly MAX_RETRIES requests.
C6_Witness ==
    /\ pc = "raised"
    /\ exc = "RuntimeError"
    /\ created = MAX_RETRIES
    /\ MAX_RETRIES = 6

\* C7: idempotency token discipline.  All requests of one call of
\* _with_retries carry the same Idempotency-Key, and requests of different
\* calls carry different keys.
C7_TokenDiscipline ==
    \A p \in sent : \A q \in sent : (p[1] = q[1]) <=> (p[2] = q[2])

\* C7 witness: the judgement call of a row is at its third request, after the
\* derivation call of the same row has sent its own.
C7_Witness ==
    /\ stage = "judge"
    /\ call = "judge_case"
    /\ created >= 3
    /\ Cardinality(sent) = 2

\* C8 as stated: the wait before attempt n is BACKOFF_BASE_S * 2^n plus a
\* jitter in [0, JITTER_S].
C8_WaitBeforeAttempt ==
    (pc = "create" /\ InLoop) =>
        (lastWait - BackoffBase(attempt)) \in 0..JITTER_S

\* C8 amended: the wait made after the failure of attempt n (0-indexed) is
\* BACKOFF_BASE_S * 2^n plus a jitter in [0, JITTER_S], no wait precedes
\* attempt 0, and the non-jittered parts for attempts 0..5 are 1, 2, 4, 8, 16
\* and 32 seconds.
C8_WaitAfterFailedAttempt ==
    /\ attempt = 0 => lastWait = 0
    /\ attempt >= 1 => (lastWait - BackoffBase(attempt - 1)) \in 0..JITTER_S
    /\ attempt >= 1 =>
          BackoffBase(attempt - 1) = <<10, 20, 40, 80, 160, 320>>[attempt]

\* C8 witness: the wait after the failure of attempt 5 has been made.
C8_Witness ==
    /\ attempt = MAX_RETRIES
    /\ lastWait >= 320
    /\ pc = "create"

\* the call of the last batch returned a reply
Succeeded == ~Raised /\ created >= 1

\* C9: retry then succeed.  A call that fails k < MAX_RETRIES times with
\* retryable errors and then succeeds returns after exactly k sleeps and
\* k + 1 requests, each sleep longer than the one before whatever the
\* jitters, and every row of a batch whose reply yields one text per row is
\* recorded with the text the call returned for it.
C9_RetryThenSucceed ==
    /\ [](Batching /\ Succeeded /\ pc \in {"zip", "loop", "done"} =>
            /\ sleeps = created - 1
            /\ sleeps < MAX_RETRIES
            /\ (sleeps > 0 => exc \in RetryableErrors))
    /\ [](Batching /\ Succeeded /\ pc \in {"loop", "done"}
            /\ Len(outputs) = Len(LastChunk) =>
            /\ Len(injected_rows) >= Len(LastChunk)
            /\ \A i \in 1..Len(LastChunk) :
                  LastRecords(Len(LastChunk))[i] =
                      Injected(LastChunk[i], outputs[i]))
    /\ [][(sleeps' = sleeps + 1 /\ sleeps >= 1) => lastWait' > lastWait]_vars

\* C9 witness: the single row of the dataset, after two failed attempts and a
\* reply to the third, is written with the returned text.
C9_Witness ==
    /\ stage = "inject"
    /\ pc = "done"
    /\ Len(df) = 1
    /\ sleeps = 2
    /\ created = 3
    /\ exc = "APITimeoutError"
    /\ out_df = <<Injected(df[1], <<"t", "1">>)>>

\* C10: reconcile leaves complete rows unchanged.  Every row of the input
\* whose transformed text is non-empty after trimming is in the written
\* dataset exactly once, with all its fields as read.
C10_CompleteRowsUnchanged ==
    (stage = "reinject" /\ pc = "done") =>
        \A i \in 1..Len(df) :
            (~isna(df[i].mt_de_injected) /\ strip(df[i].mt_de_injected) # <<>>) =>
                /\ Cardinality({j \in 1..Len(out_df) : out_df[j] = df[i]}) = 1
                /\ Cardinality({j \in 1..Len(out_df) : out_df[j].rid = df[i].rid}) = 1

\* C10 witness: a pass over a dataset with a complete row and rows to fix, in
\* which the service's last reply was short of texts, has been written.
C10_Witness ==
    /\ stage = "reinject"
    /\ pc = "done"
    /\ \E i \in 1..Len(df) : IsComplete(df[i])
    /\ \E i \in 1..Len(df) : NeedsFix(df[i])
    /\ ~Raised
    /\ Len(out_df) < Len(df)

\* C11: reconciliation fixed point.  When reinject.py is run again on a
\* dataset it wrote and in which no row is left to fix, the second run makes
\* no remote call, builds no request, does not fail, and the dataset it hands
\* to to_csv is the dataset it read: same rows, same contents, same order.
C11_FixedPoint ==
    pass = 2 =>
        /\ executes = 0
        /\ dispatched = <<>>
        /\ sent = {}
        /\ pc \in {"select", "loop", "done"}
        /\ out_df = df

\* C11 witness: the second run has written its dataset; the first run had
\* kept one row and reinjected another with a text of the service.
C11_Witness ==
    /\ pass = 2
    /\ pc = "done"
    /\ \E i, j \in 1..Len(out_df) :
          /\ i < j
          /\ out_df[i].rid > out_df[j].rid
          /\ out_df[i].mt_de_injected = CellOf("done", out_df[i].rid)
          /\ out_df[j].mt_de_injected[1] = "t"

\* C12: the reconciliation pass ensures all rows get injected.  In the
\* dataset reinject.py writes, every row has a transformed text that is
\* present and not empty after trimming.
C12_AllRowsInjected ==
    (stage = "reinject" /\ pc = "done") =>
        \A i \in 1..Len(out_df) : IsComplete(out_df[i])

\* the text is five digits 1..5 with the one character sep between them
IsRendering(text, sep) ==
    /\ Len(text) = 9
    /\ \A i \in 1..5 : text[2 * i - 1] \in {"1", "2", "3", "4", "5"}
    /\ \A i \in 1..4 : text[2 * i] = sep

\* C13: parsing is format-independent.  For any five integers in 1..5,
\* written with tabs, with commas or with spaces between them,
\* _parse_five_ints returns without raising, and returns those five integers
\* in the order written: the three renderings of a tuple give the same tuple.
C13_FormatIndependent ==
    \A sep \in {"\t", ",", " "} :
        (pc = "parsed" /\ IsRendering(parse_text, sep)) =>
            /\ ~parse_result.raised
            /\ parse_result.vals = [i \in 1..5 |-> DigitValue(parse_text[2 * i - 1])]

\* C13 witness: the comma rendering of 2 3 2 3 4 has been parsed to (2,3,2,3,4).
C13_Witness ==
    /\ pc = "parsed"
    /\ parse_text = <<"2", ",", "3", ",", "2", ",", "3", ",", "4">>
    /\ parse_result.vals = <<2, 3, 2, 3, 4>>

\* digits, with single underscores allowed between two digits
RECURSIVE IsDigitString(_)
IsDigitString(b) ==
    /\ b # <<>>
    /\ IsDigit(Head(b))
    /\ \/ Len(b) = 1
       \/ IsDigitString(Tail(b))
       \/ (b[2] = "_" /\ IsDigitString(SubSeq(b, 3, Len(b))))

\* the token without surrounding whitespace and without its sign
TokenBody(tok) ==
    LET t == strip(tok) IN
    IF t # <<>> /\ t[1] \in {"+", "-"} THEN SubSeq(t, 2, Len(t)) ELSE t

\* the token is the decimal writing of an integer, as int() reads it
IsIntegerToken(tok) == IsDigitString(TokenBody(tok))

\* the significant digits of an integer token
RECURSIVE DropZeros(_)
DropZeros(d) == IF d # <<>> /\ Head(d) = "0" THEN DropZeros(Tail(d)) ELSE d

Significant(tok) == DropZeros(SelectSeq(TokenBody(tok), IsDigit))

\* the integer written by the token lies in 1..5
IsScoreToken(tok) ==
    /\ IsIntegerToken(tok)
    /\ strip(tok)[1] # "-"
    /\ Len(Significant(tok)) = 1
    /\ Significant(tok)[1] \in {"1", "2", "3", "4", "5"}

\* C14: _parse_five_ints raises, returning no tuple at all, whenever the
\* split of the trimmed text does not give exactly five tokens, or a token
\* is not an integer, or an integer is outside 1..5; and every tuple it
\* returns has exactly five integers, each in 1..5 and each the integer
\* written by the token at its position.
C14_ParseFailsClosed ==
    pc = "parsed" =>
        LET parts == SplitParts(strip(parse_text)) IN
        /\ Len(parts) # 5 => parse_result = ParseError
        /\ (\E i \in 1..Len(parts) : ~IsIntegerToken(parts[i])) =>
                parse_result = ParseError
        /\ (\E i \in 1..Len(parts) :
                IsIntegerToken(parts[i]) /\ ~IsScoreToken(parts[i])) =>
                parse_result = ParseError
        /\ parse_result.raised => parse_result.vals = <<>>
        /\ ~parse_result.raised =>
                /\ Len(parse_result.vals) = 5
                /\ Len(parts) = 5
                /\ \A i \in 1..5 :
                      /\ parse_result.vals[i] \in 1..5
                      /\ IsScoreToken(parts[i])
                      /\ Digit(parse_result.vals[i]) = Significant(parts[i])[1]

\* C14 witness: five tab-separated integers of which the last is 6 have been
\* refused.
C14_Witness ==
    /\ pc = "parsed"
    /\ parse_text = <<"1", "\t", "2", "\t", "3", "\t", "4", "\t", "6">>
    /\ parse_result = ParseError

\* C15: in the scoring stage, when the back-translation call or the
\* judgement call of a row raises (bad request or retries exhausted), the
\* record of that row has an empty back-translation and all five scores
\* None, also when the back-translation had been obtained before the
\* judgement call raised.
C15_RowFailureRecord ==
    (stage = "judge" /\ Raised /\ pc \in {"loop", "done"}) =>
        /\ start >= 1
        /\ Len(rows) = start
        /\ rows[start].src_en = df[start].src_en
        /\ rows[start].bt_en = <<>>
        /\ \A k \in 1..5 : rows[start].scores[k] = None

\* C15 witness: the judgement call exhausted its retries after the
\* back-translation "e" had been obtained, and the record has been appended.
C15_Witness ==
    /\ stage = "judge"
    /\ pc = "loop"
    /\ call = "judge_case"
    /\ exc = "RuntimeError"
    /\ bt = <<"e">>
    /\ Len(rows) = start
    /\ rows[start].bt_en = <<>>

\* C16: judgement results are all-or-nothing.  In every record of rows, and
\* so of the dataset written, either the five scores are all integers in
\* 1..5 or the five scores are all None.
C16_AllOrNothing ==
    stage = "judge" =>
        /\ \A i \in 1..Len(rows) :
              \/ \A k \in 1..5 : rows[i].scores[k] = None
              \/ \A k \in 1..5 : \E v \in 1..5 : rows[i].scores[k] = Some(v)
        /\ pc = "done" => out_df = rows

\* C16 witness: the written dataset holds a record with five scores and a
\* record with none.
C16_Witness ==
    /\ stage = "judge"
    /\ pc = "done"
    /\ \E i, j \in 1..Len(out_df) :
          /\ out_df[i].scores = [k \in 1..5 |-> None]
          /\ out_df[j].scores[1] # None

\* C17: the run always completes.  For every input dataset and every
\* pattern of failures of the remote calls, each of inject.py, reinject.py
\* and judge_quantify.py goes on until its final to_csv: no run ends on an
\* uncaught exception, and a run that has not written yet has a next step.
C17_RunCompletes ==
    stage \in {"inject", "reinject", "judge"} =>
        /\ pc # "crashed"
        /\ pc = "done" \/ ENABLED Next

\* the user message inject_batch builds for a row
UserMessage(row) ==
    [role |-> "user", content |-> <<row.src_en, row.mt_de, row.target_err>>]

\* the places <<batch, position>> at which the row's message was dispatched
PlacesOf(row) ==
    {<<b, k>> \in (1..Len(dispatched)) \X (1..(BATCH_SIZE + 1)) :
        k <= Len(dispatched[b]) /\ dispatched[b][k] = UserMessage(row)}

\* C18: reinject.py sends only incomplete rows.  No row whose transformed
\* text is non-empty after trimming is in the messages of any batch, and when
\* the run has ended every row whose transformed text is missing or empty
\* after trimming is in the messages of exactly one batch, once.
C18_OnlyIncompleteSent ==
    stage = "reinject" =>
        /\ \A i \in 1..Len(df) : IsComplete(df[i]) => PlacesOf(df[i]) = {}
        /\ \A i \in 1..Len(df) : Cardinality(PlacesOf(df[i])) <= 1
        /\ pc \in {"done", "crashed"} =>
                \A i \in 1..Len(df) :
                    NeedsFix(df[i]) => Cardinality(PlacesOf(df[i])) = 1

\* C19: reinject.py preserves the row set.  The dataset it writes is the
\* complete rows followed by exactly one record for each incomplete row, in
\* the order of to_fix, so it has as many rows as the dataset read and the
\* same rids, whatever the service does.
C19_RowSetPreserved ==
    (stage = "reinject" /\ pc = "done") =>
        /\ Len(out_df) = Len(df)
        /\ {out_df[i].rid : i \in 1..Len(out_df)} = {df[i].rid : i \in 1..Len(df)}
        /\ SubSeq(out_df, 1, Len(Kept)) = Kept
        /\ \A i \in 1..Len(to_fix) :
              /\ Len(Kept) + i <= Len(out_df)
              /\ out_df[Len(Kept) + i].rid = to_fix[i].rid

\* C20: positional matching on success.  When the call of a batch returned,
\* the record of the i-th row of the batch carries the text of the i-th unit
\* of the reply (the service marks the text of its unit p with p), or no
\* text when that unit is empty or not a text; the text of a later unit is
\* never recorded for an earlier row.
C20_PositionalMatching ==
    (Batching /\ ~Raised /\ pc \in {"loop", "done"} /\ start > 0) =>
        LET n == Min(Len(LastChunk), Len(outputs))
            last == LastRecords(n)
        IN  \A i \in 1..n :
                /\ last[i].rid = LastChunk[i].rid
                /\ last[i].mt_de_injected \in {<<>>, strip(UnitText(i))}

\* the user messages of the batches b..Len(dispatched), in dispatch order
RECURSIVE UserMessagesFrom(_)
UserMessagesFrom(b) ==
    IF b > Len(dispatched) THEN <<>>
    ELSE Tail(dispatched[b]) \o UserMessagesFrom(b + 1)

\* the rows the loop has gone through when it is back at its head
RowsTaken == SubSeq(Work, 1, Min(start, Len(Work)))

\* C21: batching.  main cuts the rows into consecutive batches: every batch
\* is the system message followed by one user message per row, for at least
\* one and at most BATCH_SIZE rows; the user messages of the batches, read
\* in dispatch order, are the rows in input order, each exactly once;
\* _with_retries is entered once per batch, so that a finished run over n
\* rows has entered it ceil(n / BATCH_SIZE) times, and never for no rows.
C21_Batching ==
    Batching =>
        /\ Len(dispatched) = executes
        /\ \A b \in 1..Len(dispatched) :
              /\ Len(dispatched[b]) - 1 \in 1..BATCH_SIZE
              /\ dispatched[b][1].role = "system"
              /\ \A k \in 2..Len(dispatched[b]) : dispatched[b][k].role = "user"
              /\ b < Len(dispatched) => Len(dispatched[b]) - 1 = BATCH_SIZE
        /\ pc \in {"loop", "done"} =>
              UserMessagesFrom(1) = [i \in 1..Len(RowsTaken) |-> UserMessage(RowsTaken[i])]
        /\ pc = "done" =>
              /\ RowsTaken = Work
              /\ executes = (Len(Work) + BATCH_SIZE - 1) \div BATCH_SIZE

\* C21 witness: inject.py has finished a dataset of BATCH_SIZE + 1 rows in
\* two batches, of BATCH_SIZE rows and of one row.
C21_Witness ==
    /\ stage = "inject"
    /\ pc = "done"
    /\ Len(df) = BATCH_SIZE + 1
    /\ executes = 2
    /\ Len(dispatched[1]) = BATCH_SIZE + 1
    /\ Len(dispatched[2]) = 2

\* the request is the one backtranslate builds
IsBacktranslateRequest(m) == m[1].content[1] = <<"BT_PROMPT">>

\* the rows of the scoring stage whose back-translation has been requested
RowsStarted == IF pc \in {"loop", "done", "crashed"} THEN start ELSE start + 1

\* rows are left for the loop to take
RowsLeft == start < (IF stage = "judge" THEN Len(df) ELSE Len(Work))

\* the state part of C22
C22_InOrder ==
    /\ Len(dispatched) = executes
    /\ \A e \in sent : e[1] \in 1..executes
    /\ stage = "judge" =>
          SelectSeq(dispatched, IsBacktranslateRequest) =
              [i \in 1..RowsStarted |-> BacktranslateMessages(df[i].mt_de)]
    /\ (Batching /\ pc \in {"loop", "done"}) =>
          UserMessagesFrom(1) = [i \in 1..Len(RowsTaken) |-> UserMessage(RowsTaken[i])]
    /\ (Raised /\ pc \in {"loop", "done"}) => start >= 1
    /\ (pc = "done" /\ stage = "judge") => RowsStarted = Len(df)
    /\ (pc = "done" /\ Batching) => RowsTaken = Work

\* the step part of C22
C22_OneAtATime ==
    /\ executes' = executes + 1 =>
          /\ pc \in {"loop", "judge"}
          /\ pc' = "create"
          /\ Len(dispatched') = Len(dispatched) + 1
    /\ \A e \in sent' \ sent : e[1] = executes /\ executes' = executes
    /\ pc = "raised" =>
          /\ pc' \in {"zip", "loop"}
          /\ start' >= start
          /\ executes' = executes
    /\ (pc = "loop" /\ RowsLeft) =>
          /\ executes' = executes + 1
          /\ start' = start
    /\ (pc = "zip" /\ Batching) => (pc' = "loop" /\ start' = start + BATCH_SIZE)
    /\ (stage = "judge" /\ start' # start) => start' = start + 1

\* C22: sequential processing with failure isolation.  Batches, and in the
\* scoring stage rows, are dispatched one at a time in input order: a call
\* of _with_retries starts only when the previous one has returned or
\* raised, and a request goes out only for the call started last.  A call
\* that raised (bad request or retries exhausted) is followed by main's
\* handler, and from the head of the loop with rows left the next batch or
\* row is dispatched, so every later batch or row is dispatched too.
C22_SequentialIsolated == [](C22_InOrder) /\ [][C22_OneAtATime]_vars

\* C22 witness: the first row of the scoring stage has been recorded with no
\* back-translation and no scores, and the back-translation of the second
\* row has been requested.
C22_Witness ==
    /\ stage = "judge"
    /\ pc = "create"
    /\ call = "backtranslate"
    /\ start = 1
    /\ Len(df) = 2
    /\ rows[1].bt_en = <<>>
    /\ rows[1].scores = ScoreColumns(<<>>)
    /\ dispatched = <<BacktranslateMessages(df[1].mt_de),
                      BacktranslateMessages(df[2].mt_de)>>

\* the request dispatched last
LastRequest == dispatched[Len(dispatched)]

\* the state part of C23
C23_RequestOrder ==
    stage = "judge" =>
        /\ \A b \in 1..Len(dispatched) :
              ~IsBacktranslateRequest(dispatched[b]) =>
                  /\ b > 1
                  /\ IsBacktranslateRequest(dispatched[b - 1])
                  /\ dispatched[b][1].content[2] = dispatched[b - 1][1].content[2]
        /\ (call = "judge_case" /\ pc \in {"create", "raised"}) =>
              /\ LastRequest[1].content[1] = df[start + 1].src_en
              /\ LastRequest[1].content[2] = df[start + 1].mt_de
              /\ LastRequest[1].content[3] = bt
        /\ (call = "backtranslate" /\ pc \in {"create", "raised"}) =>
              /\ IsBacktranslateRequest(LastRequest)
              /\ LastRequest[1].content[2] = df[start + 1].mt_de
              /\ bt = <<>>
        /\ pc = "judge" => (call = "backtranslate" /\ ~Raised /\ created >= 1)

\* the step part of C23
C23_JudgeAfterDerivation ==
    stage = "judge" =>
        /\ (executes' = executes + 1 /\ call' = "judge_case") =>
              /\ pc = "judge"
              /\ call = "backtranslate"
              /\ ~Raised
              /\ bt' = bt
              /\ start' = start
        /\ (executes' = executes + 1 /\ call' = "backtranslate") => pc = "loop"
        /\ (call = "backtranslate" /\ pc = "create" /\ pc' = "judge") =>
              created' = created + 1
        /\ (call = "backtranslate" /\ pc = "raised") =>
              /\ dispatched' = dispatched
              /\ executes' = executes
              /\ pc' = "loop"
              /\ start' = start + 1

\* C23: scoring call order.  For each row the back-translation call is made
\* first and the judgement call second; the judgement request is built from
\* the row's source and translation and from the text the back-translation
\* call returned; the judgement call is entered only after the
\* back-translation call has returned, and a row whose back-translation
\* call raises is ended by main's handler with no judgement request.
C23_CallOrder == [](C23_RequestOrder) /\ [][C23_JudgeAfterDerivation]_vars

\* C23 witness: the judgement request of the first row is out, carrying the
\* back-translation "e" that the first call returned.
C23_Witness ==
    /\ stage = "judge"
    /\ pc = "create"
    /\ call = "judge_case"
    /\ start = 0
    /\ bt = <<"e">>
    /\ Len(dispatched) = 2
    /\ IsBacktranslateRequest(dispatched[1])
    /\ dispatched[2][1].content[3] = <<"e">>

\* the positions of text that hold one of the characters of delims
CutsOf(text, delims) == {i \in 1..Len(text) : text[i] \in delims}

\* the pieces of text between consecutive cuts, empty pieces included
PiecesOf(text, cuts) ==
    LET n == Cardinality(cuts)
        cut(k) == IF k = 0 THEN 0
                  ELSE IF k = n + 1 THEN Len(text) + 1
                  ELSE CHOOSE c \in cuts : Cardinality({x \in cuts : x < c}) = k - 1
    IN  [k \in 1..(n + 1) |-> SubSeq(text, cut(k - 1) + 1, cut(k) - 1)]

NonEmpty(piece) == piece # <<>>

\* the tokens of the trimmed text under the delimiter of highest priority
\* that it contains
PriorityTokens(text) ==
    LET raw == strip(text) IN
    IF CutsOf(raw, {"\t"}) # {} THEN PiecesOf(raw, CutsOf(raw, {"\t"}))
    ELSE IF CutsOf(raw, {","}) # {}
    THEN LET ps == PiecesOf(raw, CutsOf(raw, {","})) IN
         [k \in 1..Len(ps) |-> strip(ps[k])]
    ELSE SelectSeq(PiecesOf(raw, CutsOf(raw, Whitespace)), NonEmpty)

\* C24: delimiter priority.  The trimmed text is split on tabs only when it
\* contains a tab; otherwise on commas only, the tokens trimmed, when it
\* contains a comma; otherwise on runs of whitespace.  The count test, the
\* integer test and the range test are made on the tokens of that split:
\* _parse_five_ints returns exactly when they are five scores, and returns
\* their values.
C24_DelimiterPriority ==
    pc = "parsed" =>
        LET toks == PriorityTokens(parse_text) IN
        /\ parse_result.raised <=>
                (Len(toks) # 5 \/ \E i \in 1..Len(toks) : ~IsScoreToken(toks[i]))
        /\ ~parse_result.raised =>
                \A i \in 1..5 : Digit(parse_result.vals[i]) = Significant(toks[i])[1]

\* C24 witness: 1,2,3,4,5 1 holds commas and a space; split on commas it has
\* five tokens, the last of which, "5 1", is not an integer, so it is refused
\* (split on whitespace it would have two tokens).
C24_Witness ==
    /\ pc = "parsed"
    /\ parse_text = <<"1", ",", "2", ",", "3", ",", "4", ",", "5", " ", "1">>
    /\ Len(PriorityTokens(parse_text)) = 5
    /\ parse_result.raised

\* C25: a parse failure degrades only the scores of the row.  When the
\* judgement call returned and _parse_five_ints raised on its text, the row
\* is recorded and the loop goes on; the record keeps the back-translation
\* and has all five scores None; and the judgement call is not made again:
\* its last request is the one that was answered, and the requests of the
\* row are one back-translation request followed by one judgement request.
C25_ParseFailureDegrades ==
    (stage = "judge" /\ call = "judge_case" /\ ~Raised /\ pc \in {"loop", "done"}
        /\ parse_result.raised) =>
            /\ start >= 1
            /\ Len(rows) = start
            /\ rows[start].src_en = df[start].src_en
            /\ rows[start].mt_de = df[start].mt_de
            /\ rows[start].bt_en = bt
            /\ \A k \in 1..5 : rows[start].scores[k] = None
            /\ created = sleeps + 1
            /\ Len(dispatched) = executes
            /\ Len(dispatched) >= 2
            /\ ~IsBacktranslateRequest(LastRequest)
            /\ IsBacktranslateRequest(dispatched[Len(dispatched) - 1])
            /\ LastRequest[1].content[2] = df[start].mt_de

\* C25 witness: the judgement call of a row with the back-translation "e"
\* returned four integers; the row is recorded with "e" and no scores.
C25_Witness ==
    /\ stage = "judge"
    /\ pc = "loop"
    /\ call = "judge_case"
    /\ ~Raised
    /\ parse_text = <<"1", "\t", "2", "\t", "3", "\t", "4">>
    /\ parse_result = ParseError
    /\ bt = <<"e">>
    /\ rows[start].bt_en = <<"e">>
    /\ rows[start].scores = [k \in 1..5 |-> None]

\* the current call of _with_retries has returned a reply to its caller
Returned == call # "none" /\ pc \notin {"create", "raised"} /\ ~Raised

\* C26: within one call of _with_retries a sleep follows every retryable
\* failure and nothing else.  While the loop runs, every request made so far
\* failed with a retryable error and was followed by one sleep; no sleep
\* precedes the first request; the request that is answered, and the request
\* that fails with BadRequestError, are followed by no sleep; and a call that
\* ends with "Max retries exceeded" has made MAX_RETRIES requests and
\* MAX_RETRIES sleeps, the last of them, of BACKOFF_BASE_S * 2^(MAX_RETRIES-1)
\* plus jitter, after the last failed request and before the raise.
C26_SleepPerRetryableFailure ==
    /\ created = 0 => (sleeps = 0 /\ lastWait = 0)
    /\ pc = "create" => (sleeps = created /\ sleeps = attempt)
    /\ exc = "BadRequestError" => (created >= 1 /\ sleeps = created - 1)
    /\ Returned => (created >= 1 /\ sleeps = created - 1)
    /\ exc = "RuntimeError" =>
          /\ created = MAX_RETRIES
          /\ sleeps = MAX_RETRIES
          /\ (lastWait - 32 * BACKOFF_BASE_S) \in 0..JITTER_S
    /\ sleeps <= MAX_RETRIES
    /\ sleeps >= 1 => lastWait >= BACKOFF_BASE_S

\* C26 witness: "Max retries exceeded" has been raised after MAX_RETRIES
\* sleeps, the last one with the largest jitter.
C26_Witness ==
    /\ pc = "raised"
    /\ exc = "RuntimeError"
    /\ sleeps = MAX_RETRIES
    /\ lastWait = 32 * BACKOFF_BASE_S + JITTER_S

====
